---- MODULE Spec2Model ----
(***************************************************************************)
(* Model of the diffusion core of DiffuseVAE: class DDPM of                *)
(* src/models/diffusion/ddpm.py.  One DDPM instance is constructed and     *)
(* then receives a sequence of forward() and sample() calls, one at a time *)
(* (the class is synchronous and single-threaded).                         *)
(*                                                                         *)
(* Numbers.  The schedule (betas, alphas, cumulative products, posterior   *)
(* variances) is computed in exact rational arithmetic; a rational is a    *)
(* pair <<n, d>> with d > 0 in lowest terms.  Square roots and the sample  *)
(* values are fixed-point integers in units of 1/Scale.  A logarithm is    *)
(* kept symbolic, as the record [log |-> r] of its argument, so that       *)
(* exp(0.5 * log r) is Sqrt(r).  Values are finite numbers.                *)
(* A sample is a sequence with one scalar per batch element.               *)
(***************************************************************************)
EXTENDS Integers, Sequences, FiniteSets, TLC

\* ---------------------------------------------------------------- bounds
\* Largest number of diffusion timesteps T a model is configured with.
MaxT == 3
\* Resolution of the fixed-point sample values (units of 1/Scale).
Scale == 8

\* ------------------------------------------------------- input domains
Half == <<1, 2>>
Quarter == <<1, 4>>
\* pairs (beta_1, beta_2) given to the constructor: increasing, equal, decreasing
BetaPairs == {<<Quarter, Half>>, <<Half, Half>>, <<Half, Quarter>>}
\* values of var_type given to the constructor ("learned" is not a key)
VarTypes == {"fixedlarge", "fixedsmall", "learned"}
TValues == 0..MaxT
Devices == {"cpu", "cuda"}
\* the optional n_steps argument: <<>> is None, <<n>> is the integer n
NStepsArgs == {<<>>} \cup {<<n>> : n \in 0..(MaxT + 1)}
\* the initial sample x_t handed to sample(): batch of one element
SampleInputs == {<<2 * Scale>>}
\* what the opaque decoder may return for one batch element
DecoderOutputs == {0, 4 * Scale}
\* what torch.randn_like may draw for one batch element
NoiseValues == {0 - Scale, Scale}
\* forward(): batches of two elements, with their timestep vectors
ForwardInputs == {<<Scale, 0 - Scale>>}
ForwardNoise == {<<Scale, Scale>>}
ForwardTimesteps == {<<a, b>> : a \in {-1, 0, 1, MaxT}, b \in {0, MaxT - 1}}
\* the checkpoints argument of sample(): a list of step counts, or an empty set
CheckpointSteps == {1, 2}
CheckpointArgs ==
    {[isList |-> TRUE, elems |-> S] : S \in SUBSET CheckpointSteps}
        \cup {[isList |-> FALSE, elems |-> {}]}
\* batches of n values drawn from S
Batches(S, n) == [1..n -> S]

\* ------------------------------------------------- rational arithmetic
RECURSIVE GCD(_, _)
GCD(a, b) == IF b = 0 THEN a ELSE GCD(b, a % b)

Abs(n) == IF n < 0 THEN 0 - n ELSE n

Norm(n, d) ==
    LET g == GCD(Abs(n), Abs(d))
        s == IF d < 0 THEN -1 ELSE 1
    IN  IF n = 0 THEN <<0, 1>> ELSE <<s * (n \div g), s * (d \div g)>>

ROne == <<1, 1>>
RInt(n) == <<n, 1>>
RAdd(a, b) == Norm(a[1] * b[2] + b[1] * a[2], a[2] * b[2])
RSub(a, b) == Norm(a[1] * b[2] - b[1] * a[2], a[2] * b[2])
RMul(a, b) == Norm(a[1] * b[1], a[2] * b[2])
RDiv(a, b) == Norm(a[1] * b[2], a[2] * b[1])
RLeq(a, b) == a[1] * b[2] <= b[1] * a[2]
RLess(a, b) == a[1] * b[2] < b[1] * a[2]

\* ------------------------------------------------ fixed-point helpers
ISqrt(n) == CHOOSE k \in 0..n : k * k <= n /\ n < (k + 1) * (k + 1)
\* torch.sqrt of a non-negative rational, as a fixed-point number
Sqrt(r) == ISqrt((r[1] * Scale * Scale) \div r[2])
\* product of two fixed-point numbers
FMul(a, b) == (a * b) \div Scale
\* product of a fixed-point number and a rational
FMulR(f, r) == (f * r[1]) \div r[2]
\* torch.log, symbolic in its argument
Log(r) == [log |-> r]
\* torch.log of a table
LogAll(a) == [i \in DOMAIN a |-> Log(a[i])]
\* torch.exp(0.5 * lv) for a symbolic logarithm lv
ExpHalf(lv) == Sqrt(lv.log)

\* ------------------------------------------------------ tensor helpers
\* torch.linspace(start, end, steps)
Linspace(start, end, steps) ==
    IF steps <= 0 THEN <<>>
    ELSE IF steps = 1 THEN <<start>>
    ELSE [i \in 1..steps |->
            RAdd(start, RDiv(RMul(RInt(i - 1), RSub(end, start)), RInt(steps - 1)))]

\* torch.cumprod(a, dim=0)
RECURSIVE CumProd(_)
CumProd(a) ==
    IF Len(a) = 0 THEN <<>>
    ELSE LET front == CumProd(SubSeq(a, 1, Len(a) - 1))
         IN  IF Len(front) = 0 THEN <<a[1]>>
             ELSE Append(front, RMul(front[Len(front)], a[Len(a)]))

\* a[:-1]
DropLast(a) == IF Len(a) = 0 THEN <<>> ELSE SubSeq(a, 1, Len(a) - 1)
\* a[1:]
DropFirst(a) == IF Len(a) = 0 THEN <<>> ELSE SubSeq(a, 2, Len(a))

\* index of a tensor that is out of bounds (timestep k is entry k + 1)
InBounds(a, k) == 0 <= k /\ k < Len(a)

\* gather that wraps an index into the table instead of rejecting it
ExtractWrapped(a, aDev, t, tDev) ==
    IF aDev # tDev THEN [err |-> "DeviceMismatch", out |-> <<>>]
    ELSE [err |-> "", out |-> [i \in 1..Len(t) |-> a[(t[i] % Len(a)) + 1]]]

\* extract(a, t, x_shape): a.gather(-1, t), one coefficient per batch element.
\* gather fails when the table and the index live on different devices and when
\* an index is outside [0, len(a)).
Extract(a, aDev, t, tDev) ==
    IF aDev # tDev THEN [err |-> "DeviceMismatch", out |-> <<>>]
    ELSE IF \E i \in 1..Len(t) : ~InBounds(a, t[i])
         THEN [err |-> "IndexOutOfRange", out |-> <<>>]
         ELSE [err |-> "", out |-> [i \in 1..Len(t) |-> a[t[i] + 1]]]

\* torch.full((B,), t)
Full(B, t) == [i \in 1..B |-> t]

\* a clamp that bounds the value from above only
ClampUpperOnly(v) == IF v > Scale THEN Scale ELSE v

\* x_recons.clamp_(-1.0, 1.0) on one element
Clamp(v) == IF v < 0 - Scale THEN 0 - Scale ELSE IF v > Scale THEN Scale ELSE v

\* ------------------------------------------------------------ schedule
\* attributes of the instance that setup_precomputed_const assigns
NoConsts ==
    [dev |-> "none", betas |-> <<>>, alphas |-> <<>>, alpha_bar |-> <<>>,
     alpha_bar_shifted |-> <<>>, sqrt_alpha_bar |-> <<>>,
     minus_sqrt_alpha_bar |-> <<>>, sqrt_recip_alphas_cumprod |-> <<>>,
     sqrt_recipm1_alphas_cumprod |-> <<>>, post_variance |-> <<>>,
     post_log_variance_clipped |-> <<>>, p_variance |-> <<>>,
     p_log_variance |-> <<>>, post_coeff_1 |-> <<>>, post_coeff_2 |-> <<>>]

OneMinus(r) == RSub(ROne, r)
Recip(r) == RDiv(ROne, r)
RecipMinus1(r) == RSub(RDiv(ROne, r), ROne)
SqrtOneMinus(r) == Sqrt(OneMinus(r))
SqrtRecip(r) == Sqrt(Recip(r))
SqrtRecipMinus1(r) == Sqrt(RecipMinus1(r))

\* post_variance = betas * (1 - alpha_bar_shifted) / (1 - alpha_bar)
PostVariance(betas, shifted, bar) ==
    IF Len(betas) = 0 THEN <<>>
    ELSE [i \in 1..Len(betas) |->
            RDiv(RMul(betas[i], OneMinus(shifted[i])), OneMinus(bar[i]))]

\* post_coeff_1 = betas * sqrt(alpha_bar_shifted) / (1 - alpha_bar)
PostCoeff1(betas, shifted, bar) ==
    [i \in 1..Len(betas) |->
        FMulR(Sqrt(shifted[i]), RDiv(betas[i], OneMinus(bar[i])))]

\* post_coeff_2 = sqrt(alphas) * (1 - alpha_bar_shifted) / (1 - alpha_bar)
PostCoeff2(alphas, shifted, bar) ==
    [i \in 1..Len(alphas) |->
        FMulR(Sqrt(alphas[i]), RDiv(OneMinus(shifted[i]), OneMinus(bar[i])))]

\* the dictionary with the two variants under each other's key
VariantTableSwapped(betas, post_variance, post_log_variance_clipped) ==
    [fixedsmall |->
        <<betas, LogAll(<<post_variance[2]>> \o DropFirst(betas))>>,
     fixedlarge |->
        <<post_variance, post_log_variance_clipped>>]

\* the dictionary of (variance, log-variance) pairs, keyed by var_type
VariantTable(betas, post_variance, post_log_variance_clipped) ==
    [fixedlarge |->
        <<betas, LogAll(<<post_variance[2]>> \o DropFirst(betas))>>,
     fixedsmall |->
        <<post_variance, post_log_variance_clipped>>]

\* {...}[self.var_type]
SelectVariant(table, vt) == table[vt]

\* setup_precomputed_const(dev) on an instance whose attributes are c.
\* Returns the error raised ("" when none) and the attributes as the call
\* leaves them: what was assigned before an error stays assigned.
SetupPrecomputedConst(c, dev, b1, b2, nT, vt) ==
    LET betas == Linspace(b1, b2, nT)
        alphas == [i \in DOMAIN betas |-> OneMinus(betas[i])]
        bar == CumProd(alphas)
        shifted == <<ROne>> \o DropLast(bar)
        s1 == [c EXCEPT !.dev = dev, !.betas = betas, !.alphas = alphas,
                        !.alpha_bar = bar, !.alpha_bar_shifted = shifted]
        pv == PostVariance(betas, shifted, bar)
        s2 == [s1 EXCEPT !.sqrt_alpha_bar = [i \in DOMAIN bar |-> Sqrt(bar[i])],
                         !.minus_sqrt_alpha_bar = [i \in DOMAIN bar |-> SqrtOneMinus(bar[i])],
                         !.sqrt_recip_alphas_cumprod = [i \in DOMAIN bar |-> SqrtRecip(bar[i])],
                         !.sqrt_recipm1_alphas_cumprod = [i \in DOMAIN bar |-> SqrtRecipMinus1(bar[i])],
                         !.post_variance = pv]
        plvc == LogAll(<<pv[2]>> \o DropFirst(pv))
        s3 == [s2 EXCEPT !.post_log_variance_clipped = plvc]
        table == VariantTable(betas, pv, plvc)
        pair == SelectVariant(table, vt)
        s4 == [s3 EXCEPT !.p_variance = pair[1], !.p_log_variance = pair[2],
                         !.post_coeff_1 = PostCoeff1(betas, shifted, bar),
                         !.post_coeff_2 = PostCoeff2(alphas, shifted, bar)]
    IN  IF Len(shifted) # nT THEN [err |-> "AssertionError", consts |-> s1]
        ELSE IF ~InBounds(pv, 1) THEN [err |-> "IndexError", consts |-> s2]
        ELSE IF vt \notin DOMAIN table THEN [err |-> "KeyError", consts |-> s3]
        ELSE [err |-> "", consts |-> s4]

\* ------------------------------------------------------------ sampling
\* _predict_xstart_from_eps(x_t, t, eps), elementwise over the batch
PredictXstartFromEps(c, x_t, t, eps, dev) ==
    LET a == Extract(c.sqrt_recip_alphas_cumprod, c.dev, t, dev)
        b == Extract(c.sqrt_recipm1_alphas_cumprod, c.dev, t, dev)
    IN  IF a.err # "" THEN [err |-> a.err, out |-> <<>>]
        ELSE IF b.err # "" THEN [err |-> b.err, out |-> <<>>]
        ELSE [err |-> "",
              out |-> [i \in 1..Len(x_t) |->
                          FMul(a.out[i], x_t[i]) - FMul(b.out[i], eps[i])]]

\* the default of the clip_denoised parameter; sample() never passes it
ClipDenoisedDefault == TRUE

\* get_posterior_mean_covariance(x_t, t, clip_denoised), given what the
\* decoder returned for (x_t, t_)
GetPosteriorMeanCovariance(c, x_t, t, clip_denoised, eps, dev) ==
    LET t_ == Full(Len(x_t), t)
        raw == PredictXstartFromEps(c, x_t, t_, eps, dev)
        x_recons == IF clip_denoised THEN [i \in DOMAIN raw.out |-> Clamp(raw.out[i])] ELSE raw.out
        c1 == Extract(c.post_coeff_1, c.dev, t_, dev)
        c2 == Extract(c.post_coeff_2, c.dev, t_, dev)
        pv == Extract(c.p_variance, c.dev, t_, dev)
        plv == Extract(c.p_log_variance, c.dev, t_, dev)
        bad == [err |-> raw.err, x_recons |-> <<>>, post_mean |-> <<>>,
                post_variance |-> <<>>, post_log_variance |-> <<>>]
    IN  IF raw.err # "" THEN bad
        ELSE IF c1.err # "" THEN [bad EXCEPT !.err = c1.err]
        ELSE IF c2.err # "" THEN [bad EXCEPT !.err = c2.err]
        ELSE IF pv.err # "" THEN [bad EXCEPT !.err = pv.err]
        ELSE IF plv.err # "" THEN [bad EXCEPT !.err = plv.err]
        ELSE [err |-> "",
              x_recons |-> x_recons,
              post_mean |-> [i \in 1..Len(x_t) |->
                                FMul(c1.out[i], x_recons[i]) + FMul(c2.out[i], x_t[i])],
              post_variance |-> pv.out,
              post_log_variance |-> plv.out]

\* range(0, num_steps) without the reversal
ForwardRange(n) == IF n <= 0 THEN <<>> ELSE [i \in 1..n |-> i - 1]

\* reversed(range(0, num_steps)) as the sequence of timesteps visited
ReversedRange(n) == IF n <= 0 THEN <<>> ELSE [i \in 1..n |-> n - i]

\* a mask that injects noise at every timestep
MaskAlwaysOne(t) == Scale

\* torch.tensor(t != 0).float(): 1.0 or 0.0
NonzeroMask(t) == IF t # 0 THEN Scale ELSE 0

\* x = post_mean + nonzero_mask * exp(0.5 * post_log_variance) * z
LangevinStep(post_mean, mask, post_log_variance, z) ==
    [i \in 1..Len(post_mean) |->
        post_mean[i] + FMul(FMul(mask, ExpHalf(post_log_variance[i])), z[i])]

\* str(n): the decimal digits of a non-negative integer
Digits == <<"0", "1", "2", "3", "4", "5", "6", "7", "8", "9">>
RECURSIVE Str(_)
Str(n) == IF n < 10 THEN <<Digits[n + 1]>>
          ELSE Append(Str(n \div 10), Digits[(n % 10) + 1])

\* the checkpoints argument: a list or a set of integers.  Only the empty
\* list equals [].
EmptyList == [isList |-> TRUE, elems |-> {}]
\* no default: the argument is used as given
NoDefaultCheckpoints(checkpoints, num_steps) == checkpoints

\* checkpoints = [num_steps] if checkpoints == [] else checkpoints
DefaultCheckpoints(checkpoints, num_steps) ==
    IF checkpoints = EmptyList THEN [isList |-> TRUE, elems |-> {num_steps}]
    ELSE checkpoints

\* num_steps = self.T if n_steps is None else n_steps
NumSteps(n_steps, nT) == IF n_steps = <<>> THEN nT ELSE n_steps[1]

\* the 0-based loop counter used as the step count
StepLabelZeroBased(i) == i

\* step count under which iteration idx is recorded
StepLabel(i) == i + 1

\* sample_dict[key] = value on a dictionary kept as a set of <<key, value>>
DictSet(d, key, value) == {p \in d : p[1] # key} \cup {<<key, value>>}
DictKeys(d) == {p[1] : p \in d}

\* if idx + 1 in checkpoints: sample_dict[str(idx + 1)] = x
AddResults(d, i, cps, value) ==
    IF StepLabel(i) \in cps.elems THEN DictSet(d, Str(StepLabel(i)), value) ELSE d

\* --------------------------------------------------------------- state
VARIABLES
    T, beta_1, beta_2, var_type,   \* constructor arguments kept on the instance
    setup_consts,                  \* the flag of __init__, line 25
    consts,                        \* attributes set by setup_precomputed_const
    pc,                            \* "idle", or "sample" inside sample()'s loop
    call,                          \* the current (or last) call and its arguments
    x, num_steps, checkpoints, idx, sample_dict,   \* locals of sample()
    evals,                         \* decoder evaluations made by the call
    trace,                         \* one record per loop iteration of the call
    ret                            \* outcome of the last finished call

vars == <<T, beta_1, beta_2, var_type, setup_consts, consts, pc, call,
          x, num_steps, checkpoints, idx, sample_dict, evals, trace, ret>>

config == <<T, beta_1, beta_2, var_type>>
locals == <<x, num_steps, checkpoints, idx, sample_dict>>

NoCall == [op |-> "none", dev |-> "none", t |-> <<>>, n_steps |-> <<>>,
           checkpoints |-> EmptyList, setup |-> FALSE, flagBefore |-> FALSE,
           devBefore |-> "none"]
NoRet == [kind |-> "none", err |-> "", out |-> <<>>, dict |-> {}]
Raised(e) == [kind |-> "error", err |-> e, out |-> <<>>, dict |-> {}]

\* __init__: the arguments are stored, nothing is computed or validated
Init ==
    /\ T \in TValues
    /\ \E b \in BetaPairs : beta_1 = b[1] /\ beta_2 = b[2]
    /\ var_type \in VarTypes
    /\ setup_consts = FALSE
    /\ consts = NoConsts
    /\ pc = "idle"
    /\ call = NoCall
    /\ x = <<>>
    /\ num_steps = 0
    /\ checkpoints = EmptyList
    /\ idx = 0
    /\ sample_dict = {}
    /\ evals = 0
    /\ trace = <<>>
    /\ ret = NoRet

\* "if not self.setup_consts: self.setup_precomputed_const(dev)": whether the
\* guard of lines 134 and 173 lets the call build the schedule
NeedsSetup(flag, dev, constsDev) == ~flag

\* the build a call starts with, or none
EntrySetup(dev) ==
    IF NeedsSetup(setup_consts, dev, consts.dev)
    THEN SetupPrecomputedConst(consts, dev, beta_1, beta_2, T, var_type)
    ELSE [err |-> "", consts |-> consts]

CallRecord(op, dev, t, n_steps, cps) ==
    [op |-> op, dev |-> dev, t |-> t, n_steps |-> n_steps, checkpoints |-> cps,
     setup |-> NeedsSetup(setup_consts, dev, consts.dev),
     flagBefore |-> setup_consts, devBefore |-> consts.dev]

\* compute_noisy_input(x_start, eps, t)
ComputeNoisyInput(c, x_start, eps, t, dev) ==
    LET a == Extract(c.sqrt_alpha_bar, c.dev, t, dev)
        b == Extract(c.minus_sqrt_alpha_bar, c.dev, t, dev)
    IN  IF a.err # "" THEN [err |-> a.err, out |-> <<>>]
        ELSE IF b.err # "" THEN [err |-> b.err, out |-> <<>>]
        ELSE [err |-> "",
              out |-> [i \in 1..Len(x_start) |->
                          FMul(x_start[i], a.out[i]) + FMul(eps[i], b.out[i])]]

\* forward(x, eps, t): one whole call; predicted is what the decoder returns
Forward(dev, x0, eps, t, predicted) ==
    /\ pc = "idle"
    /\ call.op = "none"
    /\ call' = CallRecord("forward", dev, t, <<>>, EmptyList)
    /\ LET built == EntrySetup(dev)
           noisy == ComputeNoisyInput(built.consts, x0, eps, t, dev)
       IN  /\ consts' = built.consts
           /\ setup_consts' = (setup_consts \/ built.err = "")
           /\ IF built.err # ""
              THEN ret' = Raised(built.err) /\ evals' = 0
              ELSE IF noisy.err # ""
              THEN ret' = Raised(noisy.err) /\ evals' = 0
              ELSE /\ ret' = [kind |-> "ok", err |-> "", out |-> predicted,
                              dict |-> {}]
                   /\ evals' = 1
    /\ trace' = <<>>
    /\ UNCHANGED <<config, pc, locals>>

\* sample(x_t, n_steps, checkpoints) up to the loop: lines 129-139
SampleBegin(dev, x_t, n_steps, cps) ==
    /\ pc = "idle"
    /\ call.op = "none"
    /\ call' = CallRecord("sample", dev, <<>>, n_steps, cps)
    /\ evals' = 0
    /\ trace' = <<>>
    /\ LET built == EntrySetup(dev)
       IN  /\ consts' = built.consts
           /\ setup_consts' = (setup_consts \/ built.err = "")
           /\ IF built.err # ""
              THEN /\ ret' = Raised(built.err)
                   /\ pc' = "idle"
                   /\ UNCHANGED locals
              ELSE /\ ret' = NoRet
                   /\ pc' = "sample"
                   /\ x' = x_t
                   /\ sample_dict' = {}
                   /\ num_steps' = NumSteps(n_steps, T)
                   /\ checkpoints' = DefaultCheckpoints(cps, NumSteps(n_steps, T))
                   /\ idx' = 0
    /\ UNCHANGED config

\* one iteration of the loop of sample(): lines 140-162
SampleStep(predicted, z) ==
    /\ pc = "sample"
    /\ idx < Len(ReversedRange(num_steps))
    /\ LET t == ReversedRange(num_steps)[idx + 1]
           post == GetPosteriorMeanCovariance(consts, x, t, ClipDenoisedDefault,
                                              predicted, call.dev)
           mask == NonzeroMask(t)
           x_new == LangevinStep(post.post_mean, mask, post.post_log_variance, z)
       IN  /\ evals' = evals + 1
           /\ IF post.err # ""
              THEN /\ ret' = Raised(post.err)
                   /\ pc' = "idle"
                   /\ UNCHANGED <<locals, trace>>
              ELSE /\ x' = x_new
                   /\ sample_dict' = AddResults(sample_dict, idx, checkpoints, x_new)
                   /\ idx' = idx + 1
                   /\ trace' = Append(trace,
                        [t |-> t, x_in |-> x, eps |-> predicted,
                         clip |-> ClipDenoisedDefault, x_recons |-> post.x_recons,
                         post_mean |-> post.post_mean,
                         post_variance |-> post.post_variance,
                         post_log_variance |-> post.post_log_variance,
                         mask |-> mask, z |-> z, x_new |-> x_new])
                   /\ UNCHANGED <<pc, ret, num_steps, checkpoints>>
    /\ UNCHANGED <<config, setup_consts, consts, call>>

\* return sample_dict, once the loop is exhausted: line 163
SampleReturn ==
    /\ pc = "sample"
    /\ idx >= Len(ReversedRange(num_steps))
    /\ pc' = "idle"
    /\ ret' = [kind |-> "ok", err |-> "", out |-> <<>>, dict |-> sample_dict]
    /\ UNCHANGED <<config, setup_consts, consts, call, locals, evals, trace>>

\* the caller drops the outcome of a finished call; the frame of the call is
\* gone and only the instance's attributes remain for the next call
Discard ==
    /\ pc = "idle"
    /\ call.op # "none"
    /\ call' = NoCall
    /\ ret' = NoRet
    /\ evals' = 0
    /\ trace' = <<>>
    /\ x' = <<>>
    /\ num_steps' = 0
    /\ checkpoints' = EmptyList
    /\ idx' = 0
    /\ sample_dict' = {}
    /\ UNCHANGED <<config, setup_consts, consts, pc>>

ForwardAny ==
    \E dev \in Devices, x0 \in ForwardInputs, eps \in ForwardNoise,
       t \in ForwardTimesteps, predicted \in Batches(DecoderOutputs, 2) :
        Forward(dev, x0, eps, t, predicted)

SampleBeginAny ==
    \E dev \in Devices, x_t \in SampleInputs, n_steps \in NStepsArgs,
       cps \in CheckpointArgs :
        SampleBegin(dev, x_t, n_steps, cps)

SampleStepAny ==
    \E predicted \in Batches(DecoderOutputs, Len(x)), z \in Batches(NoiseValues, Len(x)) :
        SampleStep(predicted, z)

Next == ForwardAny \/ SampleBeginAny \/ SampleStepAny \/ SampleReturn \/ Discard

Spec == Init /\ [][Next]_vars

\* ------------------------------------------------------------- claims
\* the step count asked of the current sample() call: n_steps, or T if omitted
AskedSteps == IF call.n_steps = <<>> THEN T ELSE call.n_steps[1]
InSample == call.op = "sample"
SampleReturned == InSample /\ pc = "idle" /\ ret.kind = "ok"
ValidVarTypes == {"fixedlarge", "fixedsmall"}
\* the preconditions of the schedule build
GoodConfig ==
    /\ RLess(<<0, 1>>, beta_1) /\ RLess(beta_1, beta_2) /\ RLess(beta_2, ROne)
    /\ T >= 1

\* C1: in a sample() call with 1 <= nSteps <= T (nSteps = T when omitted) the
\* k-th iteration processes timestep nSteps - k, so the timesteps run
\* nSteps-1, ..., 0 without gap or repeat; the decoder is evaluated once per
\* iteration; and the call returns right after the iteration for t = 0, having
\* made exactly nSteps decoder evaluations.
C1_TimestepsCountDown ==
    (InSample /\ 1 <= AskedSteps /\ AskedSteps <= T) =>
        /\ Len(trace) <= AskedSteps
        /\ \A k \in 1..Len(trace) : trace[k].t = AskedSteps - k
        /\ evals \in {Len(trace), Len(trace) + 1}
        /\ (ret.kind # "error" => evals = Len(trace))
        /\ (ret.kind = "ok" =>
                /\ Len(trace) = AskedSteps
                /\ evals = AskedSteps
                /\ trace[AskedSteps].t = 0)

\* a sample() call with explicit nSteps >= 2 has returned
C1_Witness ==
    SampleReturned /\ call.n_steps # <<>> /\ Len(trace) >= 2

\* C2: every iteration of sample() uses mask 0 at t = 0 and mask 1 at every
\* other t, and the iteration at t = 0 yields post_mean itself; a returned
\* sample() with nSteps = 1 made one decoder evaluation and its final state,
\* and every entry it returns, is the post_mean of that step.
C2_MaskZeroAtLastStep ==
    /\ \A k \in 1..Len(trace) :
          /\ trace[k].mask = (IF trace[k].t = 0 THEN 0 ELSE Scale)
          /\ (trace[k].t = 0 => trace[k].x_new = trace[k].post_mean)
    /\ (SampleReturned /\ AskedSteps = 1) =>
          /\ evals = 1
          /\ Len(trace) = 1
          /\ x = trace[1].post_mean
          /\ \A p \in ret.dict : p[2] = trace[1].post_mean

\* sample() with nSteps = 1 has returned its one entry
C2_Witness ==
    SampleReturned /\ AskedSteps = 1 /\ ret.dict # {}

\* the checkpoints argument obeys "positive integers <= nSteps"
CheckpointsAllowed ==
    \A k \in call.checkpoints.elems : 1 <= k /\ k <= AskedSteps

\* the mapping a returned sample() call gives for the step counts in C:
\* key str(k) holds the state produced by the k-th iteration
MappingFor(C) == {<<Str(k), trace[k].x_new>> : k \in C}

\* C3 as stated: for every nSteps <= T and every checkpoint set C of positive
\* integers <= nSteps, the returned mapping has exactly the keys of C, each
\* holding the state produced by the k-th iteration.
C3_KeysExactlyCheckpoints ==
    (SampleReturned /\ GoodConfig /\ AskedSteps <= T /\ CheckpointsAllowed) =>
        ret.dict = MappingFor(call.checkpoints.elems)

\* C3 amended: the same for every non-empty checkpoint set C.
C3_KeysExactlyNonEmptyCheckpoints ==
    (SampleReturned /\ AskedSteps <= T /\ CheckpointsAllowed
        /\ call.checkpoints.elems # {}) =>
        ret.dict = MappingFor(call.checkpoints.elems)

\* sample() returned two checkpoints, the first of them not the final state
C3_Witness ==
    SampleReturned /\ call.checkpoints.elems = {1, 2} /\ AskedSteps >= 3

\* C4 as stated: every allowed sample() call returns a mapping that holds the
\* final sample, the state of the iteration for t = 0; with no checkpoints
\* supplied the mapping is that one entry under the key nSteps.  (Stated for
\* the calls that run at least one step and whose checkpoints are omitted or
\* a non-empty collection.)
C4_AlwaysHoldsFinalSample ==
    (SampleReturned /\ GoodConfig /\ 1 <= AskedSteps /\ AskedSteps <= T /\ CheckpointsAllowed
        /\ (call.checkpoints = EmptyList \/ call.checkpoints.elems # {})) =>
        /\ \E p \in ret.dict :
              /\ Len(trace) >= 1
              /\ trace[Len(trace)].t = 0
              /\ p = <<Str(Len(trace)), trace[Len(trace)].x_new>>
        /\ (call.checkpoints = EmptyList =>
                ret.dict = MappingFor({AskedSteps}))

\* C4 amended: with 1 <= nSteps <= T the mapping holds the final sample, under
\* the key nSteps, exactly when no checkpoints are supplied or nSteps is one
\* of them; with none supplied it is the only entry; with nSteps < 1 the
\* mapping is empty.
C4_FinalSampleIffAsked ==
    (SampleReturned /\ AskedSteps <= T /\ CheckpointsAllowed) =>
        LET asked == \/ call.checkpoints = EmptyList
                     \/ AskedSteps \in call.checkpoints.elems
        IN  /\ (AskedSteps >= 1 /\ asked) =>
                  /\ trace[AskedSteps].t = 0
                  /\ <<Str(AskedSteps), trace[AskedSteps].x_new>> \in ret.dict
            /\ (AskedSteps >= 1 /\ ~asked) =>
                  Str(AskedSteps) \notin DictKeys(ret.dict)
            /\ (AskedSteps >= 1 /\ call.checkpoints = EmptyList) =>
                  ret.dict = MappingFor({AskedSteps})
            /\ (AskedSteps < 1 => ret.dict = {})

\* sample() without checkpoints returned after two or more iterations
C4_Witness ==
    SampleReturned /\ call.checkpoints = EmptyList /\ Len(trace) >= 2

\* a call was made and its schedule build, if it ran one, raised nothing
CallMade == call.op # "none"
CallFinished == CallMade /\ pc = "idle"
BuildErrors == {"AssertionError", "IndexError", "KeyError"}
BuildFailed == CallFinished /\ ret.kind = "error" /\ ret.err \in BuildErrors

\* C5 as stated: the schedule is built on the first call for a device, reused
\* by later calls on that device and rebuilt by a call on another device, so
\* that every call computes with a schedule built for its own device.
C5_ScheduleFollowsContext ==
    (CallMade /\ GoodConfig /\ ~BuildFailed) =>
        /\ call.setup = (~call.flagBefore \/ call.devBefore # call.dev)
        /\ consts.dev = call.dev

\* C6: forward() with an element of t outside [0, T), on a built schedule of
\* its own device, raises the out-of-range error, evaluates no decoder and
\* gives no result; sample() with nSteps > T never returns a mapping, records
\* no completed step, and ends with an error, the out-of-range error when the
\* schedule is built and on the call's device.
C6_TimestepOutOfRangeFails ==
    /\ (call.op = "forward" /\ setup_consts /\ consts.dev = call.dev
           /\ \E i \in 1..Len(call.t) : call.t[i] < 0 \/ call.t[i] >= T) =>
          /\ ret.kind = "error"
          /\ ret.err = "IndexOutOfRange"
          /\ ret.out = <<>>
          /\ evals = 0
    /\ (InSample /\ AskedSteps > T) =>
          /\ ret.kind # "ok"
          /\ trace = <<>>
          /\ sample_dict = {}
          /\ (pc = "idle" => ret.kind = "error")
          /\ (pc = "idle" /\ setup_consts /\ consts.dev = call.dev) =>
                ret.err = "IndexOutOfRange"

\* sample() with nSteps > T has failed on the out-of-range timestep
C6_Witness ==
    /\ InSample /\ AskedSteps > T /\ pc = "idle"
    /\ setup_consts /\ consts.dev = call.dev
    /\ ret.err = "IndexOutOfRange"

\* the constructor arguments the specification calls invalid
BadConfig ==
    \/ RLeq(beta_2, beta_1)
    \/ T < 1
    \/ var_type \notin ValidVarTypes

\* C7 as stated: with beta1 >= beta2, T < 1 or an unknown varianceType the
\* first forward() or sample() call fails while building the schedule: the
\* schedule is never marked built and the call evaluates no decoder.
C7_BadConfigFailsAtBuild ==
    BadConfig =>
        /\ ~setup_consts
        /\ evals = 0
        /\ (CallFinished => ret.kind = "error" /\ ret.err \in BuildErrors)

TableNames ==
    {"betas", "alphas", "alpha_bar", "alpha_bar_shifted", "sqrt_alpha_bar",
     "minus_sqrt_alpha_bar", "sqrt_recip_alphas_cumprod",
     "sqrt_recipm1_alphas_cumprod", "post_variance",
     "post_log_variance_clipped", "p_variance", "p_log_variance",
     "post_coeff_1", "post_coeff_2"}
ScheduleShape ==
    /\ \A f \in TableNames : Len(consts[f]) = T
    /\ consts.alpha_bar_shifted[1] = ROne
    /\ \A i \in 2..T : consts.alpha_bar_shifted[i] = consts.alpha_bar[i - 1]
    /\ \A i \in 2..T : RLeq(consts.alpha_bar[i], consts.alpha_bar[i - 1])

\* C8 as stated: with 0 < beta1 < beta2 < 1 and T >= 1 (T = 1 included) the
\* build of the first call completes, and every sequence has length T, with
\* alphaBarShifted[0] = 1, alphaBarShifted[i] = alphaBar[i-1] and alphaBar
\* non-increasing.
C8_BuildCompletesForValidConfig ==
    (GoodConfig /\ var_type \in ValidVarTypes /\ CallMade) =>
        /\ setup_consts
        /\ ScheduleShape

\* the value _predict_xstart_from_eps gave in the k-th iteration, before the clip
RawRecons(k) ==
    PredictXstartFromEps(consts, trace[k].x_in, Full(Len(trace[k].x_in), trace[k].t),
                         trace[k].eps, call.dev).out

\* C9: in every iteration of sample() the clip is on, every element of x_recons
\* lies in [-1, 1], x_recons is the clipped prediction, and post_mean is
\* coeff1[t] * x_recons + coeff2[t] * x.
C9_ReconstructionClipped ==
    \A k \in 1..Len(trace) :
        LET e == trace[k]
        IN  /\ e.clip
            /\ \A i \in 1..Len(e.x_recons) :
                  /\ 0 - Scale <= e.x_recons[i] /\ e.x_recons[i] <= Scale
                  /\ (RawRecons(k)[i] > Scale => e.x_recons[i] = Scale)
                  /\ (RawRecons(k)[i] < 0 - Scale => e.x_recons[i] = 0 - Scale)
                  /\ e.post_mean[i] =
                        FMul(consts.post_coeff_1[e.t + 1], e.x_recons[i])
                            + FMul(consts.post_coeff_2[e.t + 1], e.x_in[i])

\* an iteration whose prediction fell below -1 before the clip
C9_Witness ==
    \E k \in 1..Len(trace) : RawRecons(k)[1] < 0 - Scale

\* C10: on a built schedule, fixedlarge selects p_variance = betas with
\* p_log_variance = log of [post_variance[1], betas[1], betas[2], ...] and
\* fixedsmall selects p_variance = post_variance with p_log_variance = log of
\* [post_variance[1], post_variance[1], post_variance[2], ...]; every
\* iteration of sample() at timestep t carries entry t of the selected pair.
C10_VariantSelection ==
    setup_consts =>
        /\ var_type = "fixedlarge" =>
              /\ consts.p_variance = consts.betas
              /\ consts.p_log_variance[1] = Log(consts.post_variance[2])
              /\ \A i \in 2..T : consts.p_log_variance[i] = Log(consts.betas[i])
        /\ var_type = "fixedsmall" =>
              /\ consts.p_variance = consts.post_variance
              /\ consts.p_log_variance[1] = Log(consts.post_variance[2])
              /\ \A i \in 2..T :
                    consts.p_log_variance[i] = Log(consts.post_variance[i])
        /\ Len(consts.p_variance) = T /\ Len(consts.p_log_variance) = T
        /\ \A k \in 1..Len(trace) :
              /\ trace[k].post_variance
                    = Full(Len(trace[k].x_in), consts.p_variance[trace[k].t + 1])
              /\ trace[k].post_log_variance
                    = Full(Len(trace[k].x_in), consts.p_log_variance[trace[k].t + 1])

\* a fixedlarge sample() has run the iterations for t = 1 and t = 0
C10_Witness ==
    /\ var_type = "fixedlarge" /\ setup_consts /\ Len(trace) >= 2
    /\ trace[Len(trace)].t = 0

====
